---- MODULE Spec2Model ----
(***************************************************************************)
(* Scaled (fixed-point) decimal arithmetic of the financial-ops crate:     *)
(* the unchecked engine (core/unchecked/operations.rs) and the checked     *)
(* engine (core/checked/checked_operations.rs) over the checked primitive  *)
(* operations (core/checked/impl_checked_arithmetic_macro.rs).             *)
(*                                                                         *)
(* Integer widths are scaled down so that every value is a TLC integer:    *)
(* the 32-bit unsigned type of the scales and of 10u32.pow is U32Bits bits *)
(* wide, the 64-bit magnitude types twice that, the 128-bit ones three     *)
(* times that.  The order of the widths, signedness, two's complement      *)
(* wrapping and the base ten of the scale factor are kept.                 *)
(***************************************************************************)
EXTENDS Integers, Sequences, FiniteSets, TLC

\* ------------------------------------------------------------ bounds
\* Width in bits of the model's u32 (the scale type, and the type 10u32.pow
\* computes in).
U32Bits == 4
\* Scales 0..MaxDecimals are drawn as inputs, plus the largest u32.
MaxDecimals == 2
\* The magnitudes drawn are those within InputSpan of 0, of the type's bounds
\* and of the bounds divided by a power of ten.
InputSpan == 1

\* ------------------------------------------------------------ integer types
\* The base of 10u32.pow(..).
Ten == 10

RECURSIVE Pow2(_)
Pow2(n) == IF n = 0 THEN 1 ELSE 2 * Pow2(n - 1)

\* The magnitude types T with T: From<u32> that impl_checked_arithmetic! covers.
Types == {"u32", "u64", "i64", "u128", "i128"}

Signed(T) == T \in {"i64", "i128"}

Bits(T) ==
  CASE T = "u32" -> U32Bits
    [] T \in {"u64", "i64"} -> 2 * U32Bits
    [] OTHER -> 3 * U32Bits

MinVal(T) == IF Signed(T) THEN 0 - Pow2(Bits(T) - 1) ELSE 0
MaxVal(T) == IF Signed(T) THEN Pow2(Bits(T) - 1) - 1 ELSE Pow2(Bits(T)) - 1
InRange(T, x) == MinVal(T) <= x /\ x <= MaxVal(T)

\* Two's complement wrap of the exact integer x into T.
Wrap(T, x) ==
  LET m == x % Pow2(Bits(T))
  IN  IF Signed(T) /\ m > MaxVal(T) THEN m - Pow2(Bits(T)) ELSE m

U32Max == Pow2(U32Bits) - 1

Abs(x) == IF x < 0 THEN 0 - x ELSE x

\* Rust's integer / and %: the quotient truncates toward zero, the remainder
\* has the sign of the dividend.
TruncDiv(a, b) ==
  LET q == Abs(a) \div Abs(b)
  IN  IF (a < 0) = (b < 0) THEN q ELSE 0 - q
TruncRem(a, b) == a - b * TruncDiv(a, b)

\* Option<T>
None == [some |-> FALSE, val |-> 0]
Some(v) == [some |-> TRUE, val |-> v]
\* No primitive was called.
NoPrimitive == [some |-> FALSE, val |-> -1]

\* ------------------------------------------------------------ primitives
\* impl_checked_arithmetic!: each method forwards to the integer type's own
\* checked operation.  None = out of range (add, sub, mul); for div and rem
\* None = zero divisor or the signed minimum divided by -1.
checked_add(T, a, b) == IF InRange(T, a + b) THEN Some(a + b) ELSE None
checked_sub(T, a, b) == IF InRange(T, a - b) THEN Some(a - b) ELSE None
\* Mutant of checked_mul: the product wrapped instead of refused.
checked_mul_wrapping(T, a, b) == Some(Wrap(T, a * b))
checked_mul(T, a, b) == IF InRange(T, a * b) THEN Some(a * b) ELSE None
checked_div(T, a, b) ==
  IF b = 0 \/ (Signed(T) /\ a = MinVal(T) /\ b = -1)
  THEN None ELSE Some(TruncDiv(a, b))
\* Mutant of checked_rem: the signed minimum by -1 gives the remainder 0.
checked_rem_zero_only(T, a, b) ==
  IF b = 0 THEN None ELSE Some(TruncRem(a, b))
checked_rem(T, a, b) ==
  IF b = 0 \/ (Signed(T) /\ a = MinVal(T) /\ b = -1)
  THEN None ELSE Some(TruncRem(a, b))

\* The operators +, -, * of T in the unchecked engine.  With overflow checks
\* (oc, a debug build) an out-of-range result panics (None); without them
\* (a release build) it wraps.
op_add(T, oc, a, b) ==
  IF InRange(T, a + b) THEN Some(a + b)
  ELSE IF oc THEN None ELSE Some(Wrap(T, a + b))
op_sub(T, oc, a, b) ==
  IF InRange(T, a - b) THEN Some(a - b)
  ELSE IF oc THEN None ELSE Some(Wrap(T, a - b))
op_mul(T, oc, a, b) ==
  IF InRange(T, a * b) THEN Some(a * b)
  ELSE IF oc THEN None ELSE Some(Wrap(T, a * b))
\* / and % panic on a zero divisor and on the signed minimum divided by -1,
\* in every build.
op_div(T, a, b) ==
  IF b = 0 \/ (Signed(T) /\ a = MinVal(T) /\ b = -1)
  THEN None ELSE Some(TruncDiv(a, b))
op_rem(T, a, b) ==
  IF b = 0 \/ (Signed(T) /\ a = MinVal(T) /\ b = -1)
  THEN None ELSE Some(TruncRem(a, b))

\* 10^exp as a u32 would hold it when nothing checks the multiplications:
\* the value modulo 2^32.
RECURSIVE pow_wrapping(_)
pow_wrapping(exp) ==
  IF exp = 0 THEN 1 ELSE (Ten * pow_wrapping(exp - 1)) % (U32Max + 1)

\* Does 10^exp exceed the u32 range?
RECURSIVE pow_overflows(_)
pow_overflows(exp) ==
  IF exp = 0 THEN FALSE
  ELSE pow_overflows(exp - 1) \/ Ten * pow_wrapping(exp - 1) > U32Max

\* 10u32.pow(exp): computed in u32, whatever T is.  It panics (None) on
\* overflow with overflow checks and wraps without.
u32_pow(oc, exp) ==
  IF pow_overflows(exp)
  THEN IF oc THEN None ELSE Some(pow_wrapping(exp))
  ELSE Some(pow_wrapping(exp))

\* self_decimals + other_decimals, in u32: panics or wraps like op_add.
u32_add(oc, a, b) ==
  IF a + b <= U32Max THEN Some(a + b)
  ELSE IF oc THEN None ELSE Some((a + b) % (U32Max + 1))

\* T::from(x) for a u32 x: every T here holds every u32, the value is kept.
from_u32(T, x) == x

\* ------------------------------------------------------------ outcomes
\* The outcome of one call.  kind is "Ok", "Overflow", "DivisionByZero"
\* (the two DecimalOperationError variants) or "Panic"; val and decimals are
\* the returned pair when kind = "Ok".
Ok(v, d) == [kind |-> "Ok", val |-> v, decimals |-> d]
Err(e) == [kind |-> e, val |-> 0, decimals |-> 0]
Panic == [kind |-> "Panic", val |-> 0, decimals |-> 0]
NoCall == [kind |-> "none", val |-> 0, decimals |-> 0]

\* ------------------------------------------------------------ checked engine
\* impl<T> CheckedDecimalOperations for T.  oc: the build's overflow checks,
\* which decide what 10u32.pow and the u32 sum of the scales do on overflow.
\* Mutant of add_decimals_checked: only the final sum is checked, the scaling
\* product is not.
add_decimals_checked_final_only(T, oc, self, other, self_decimals, other_decimals) ==
  IF self_decimals > other_decimals
  THEN LET p == u32_pow(oc, self_decimals - other_decimals)
           factor == from_u32(T, p.val)
           sum == checked_add(T, self, other * factor)
       IN  IF ~p.some THEN Panic
           ELSE IF sum.some THEN Ok(sum.val, self_decimals)
           ELSE Err("Overflow")
  ELSE LET p == u32_pow(oc, other_decimals - self_decimals)
           factor == from_u32(T, p.val)
           sum == checked_add(T, self * factor, other)
       IN  IF ~p.some THEN Panic
           ELSE IF sum.some THEN Ok(sum.val, other_decimals)
           ELSE Err("Overflow")

add_decimals_checked(T, oc, self, other, self_decimals, other_decimals) ==
  IF self_decimals > other_decimals
  THEN LET p == u32_pow(oc, self_decimals - other_decimals)
           factor == from_u32(T, p.val)
           scaled == checked_mul(T, other, factor)
           sum == checked_add(T, self, scaled.val)
       IN  IF ~p.some THEN Panic
           ELSE IF ~scaled.some THEN Err("Overflow")
           ELSE IF sum.some THEN Ok(sum.val, self_decimals)
           ELSE Err("Overflow")
  ELSE LET p == u32_pow(oc, other_decimals - self_decimals)
           factor == from_u32(T, p.val)
           scaled == checked_mul(T, self, factor)
           sum == IF scaled.some THEN checked_add(T, scaled.val, other) ELSE None
       IN  IF ~p.some THEN Panic
           ELSE IF sum.some THEN Ok(sum.val, other_decimals)
           ELSE Err("Overflow")

\* Mutant of sub_decimals_checked: the second branch subtracts the scaled
\* self from other.
sub_decimals_checked_swapped(T, oc, self, other, self_decimals, other_decimals) ==
  IF self_decimals > other_decimals
  THEN LET p == u32_pow(oc, self_decimals - other_decimals)
           factor == from_u32(T, p.val)
           scaled == checked_mul(T, other, factor)
           diff == checked_sub(T, self, scaled.val)
       IN  IF ~p.some THEN Panic
           ELSE IF ~scaled.some THEN Err("Overflow")
           ELSE IF diff.some THEN Ok(diff.val, self_decimals)
           ELSE Err("Overflow")
  ELSE LET p == u32_pow(oc, other_decimals - self_decimals)
           factor == from_u32(T, p.val)
           scaled == checked_mul(T, self, factor)
           diff == IF scaled.some THEN checked_sub(T, other, scaled.val) ELSE None
       IN  IF ~p.some THEN Panic
           ELSE IF diff.some THEN Ok(diff.val, other_decimals)
           ELSE Err("Overflow")

sub_decimals_checked(T, oc, self, other, self_decimals, other_decimals) ==
  IF self_decimals > other_decimals
  THEN LET p == u32_pow(oc, self_decimals - other_decimals)
           factor == from_u32(T, p.val)
           scaled == checked_mul(T, other, factor)
           diff == checked_sub(T, self, scaled.val)
       IN  IF ~p.some THEN Panic
           ELSE IF ~scaled.some THEN Err("Overflow")
           ELSE IF diff.some THEN Ok(diff.val, self_decimals)
           ELSE Err("Overflow")
  ELSE LET p == u32_pow(oc, other_decimals - self_decimals)
           factor == from_u32(T, p.val)
           scaled == checked_mul(T, self, factor)
           diff == IF scaled.some THEN checked_sub(T, scaled.val, other) ELSE None
       IN  IF ~p.some THEN Panic
           ELSE IF diff.some THEN Ok(diff.val, other_decimals)
           ELSE Err("Overflow")

\* The scale sum is evaluated in the Some arm only.
multiply_decimals_checked(T, oc, self, other, self_decimals, other_decimals) ==
  LET value == checked_mul(T, self, other)
      decimals == u32_add(oc, self_decimals, other_decimals)
  IN  IF ~value.some THEN Err("Overflow")
      ELSE IF ~decimals.some THEN Panic
      ELSE Ok(value.val, decimals.val)

\* Mutant of divide_decimals_checked: the divisor's scale returned as the
\* result scale.
divide_decimals_checked_other_scale(T, oc, self, other, self_decimals, other_decimals) ==
  LET p == u32_pow(oc, other_decimals)
      factor == from_u32(T, p.val)
      adjusted_value == checked_mul(T, self, factor)
      value == checked_div(T, adjusted_value.val, other)
  IN  IF ~p.some THEN Panic
      ELSE IF ~adjusted_value.some THEN Err("Overflow")
      ELSE IF value.some THEN Ok(value.val, other_decimals)
      ELSE Err("DivisionByZero")

divide_decimals_checked(T, oc, self, other, self_decimals, other_decimals) ==
  LET p == u32_pow(oc, other_decimals)
      factor == from_u32(T, p.val)
      adjusted_value == checked_mul(T, self, factor)
      value == checked_div(T, adjusted_value.val, other)
  IN  IF ~p.some THEN Panic
      ELSE IF ~adjusted_value.some THEN Err("Overflow")
      ELSE IF value.some THEN Ok(value.val, self_decimals)
      ELSE Err("DivisionByZero")

\* Mutant of rem_decimals_checked: the factor built from the divisor's scale,
\* as divide builds it.
rem_decimals_checked_other_scale(T, oc, self, other, self_decimals, other_decimals) ==
  LET p == u32_pow(oc, other_decimals)
      factor == from_u32(T, p.val)
      adjusted_value == checked_mul(T, self, factor)
      value == checked_rem(T, adjusted_value.val, other)
  IN  IF ~p.some THEN Panic
      ELSE IF ~adjusted_value.some THEN Err("Overflow")
      ELSE IF value.some THEN Ok(value.val, self_decimals)
      ELSE Err("DivisionByZero")

rem_decimals_checked(T, oc, self, other, self_decimals, other_decimals) ==
  LET p == u32_pow(oc, self_decimals)
      factor == from_u32(T, p.val)
      adjusted_value == checked_mul(T, self, factor)
      value == checked_rem(T, adjusted_value.val, other)
  IN  IF ~p.some THEN Panic
      ELSE IF ~adjusted_value.some THEN Err("Overflow")
      ELSE IF value.some THEN Ok(value.val, self_decimals)
      ELSE Err("DivisionByZero")

\* ------------------------------------------------------------ unchecked engine
\* impl<T> DecimalOperations for T: the same shape over T's own operators.
\* A panic of any step is the outcome of the call.
\* Mutant of add_decimals: the first branch scales self, not other.
add_decimals_wrong_operand(T, oc, self, other, self_decimals, other_decimals) ==
  LET p == u32_pow(oc, IF self_decimals > other_decimals
                       THEN self_decimals - other_decimals
                       ELSE other_decimals - self_decimals)
      factor == from_u32(T, p.val)
      scaled == op_mul(T, oc, self, factor)
      sum == op_add(T, oc, scaled.val, other)
  IN  IF p.some /\ scaled.some /\ sum.some
      THEN Ok(sum.val, IF self_decimals > other_decimals
                       THEN self_decimals ELSE other_decimals)
      ELSE Panic

add_decimals(T, oc, self, other, self_decimals, other_decimals) ==
  IF self_decimals > other_decimals
  THEN LET p == u32_pow(oc, self_decimals - other_decimals)
           factor == from_u32(T, p.val)
           scaled == op_mul(T, oc, other, factor)
           sum == op_add(T, oc, self, scaled.val)
       IN  IF p.some /\ scaled.some /\ sum.some
           THEN Ok(sum.val, self_decimals) ELSE Panic
  ELSE LET p == u32_pow(oc, other_decimals - self_decimals)
           factor == from_u32(T, p.val)
           scaled == op_mul(T, oc, self, factor)
           sum == op_add(T, oc, scaled.val, other)
       IN  IF p.some /\ scaled.some /\ sum.some
           THEN Ok(sum.val, other_decimals) ELSE Panic

sub_decimals(T, oc, self, other, self_decimals, other_decimals) ==
  IF self_decimals > other_decimals
  THEN LET p == u32_pow(oc, self_decimals - other_decimals)
           factor == from_u32(T, p.val)
           scaled == op_mul(T, oc, other, factor)
           diff == op_sub(T, oc, self, scaled.val)
       IN  IF p.some /\ scaled.some /\ diff.some
           THEN Ok(diff.val, self_decimals) ELSE Panic
  ELSE LET p == u32_pow(oc, other_decimals - self_decimals)
           factor == from_u32(T, p.val)
           scaled == op_mul(T, oc, self, factor)
           diff == op_sub(T, oc, scaled.val, other)
       IN  IF p.some /\ scaled.some /\ diff.some
           THEN Ok(diff.val, other_decimals) ELSE Panic

multiply_decimals(T, oc, self, other, self_decimals, other_decimals) ==
  LET value == op_mul(T, oc, self, other)
      decimals == u32_add(oc, self_decimals, other_decimals)
  IN  IF value.some /\ decimals.some
      THEN Ok(value.val, decimals.val) ELSE Panic

\* Mutant of divide_decimals: the factor built from the dividend's scale, as
\* rem builds it.
divide_decimals_own_scale(T, oc, self, other, self_decimals, other_decimals) ==
  LET p == u32_pow(oc, self_decimals)
      factor == from_u32(T, p.val)
      adjusted_value == op_mul(T, oc, self, factor)
      value == op_div(T, adjusted_value.val, other)
  IN  IF p.some /\ adjusted_value.some /\ value.some
      THEN Ok(value.val, self_decimals) ELSE Panic

divide_decimals(T, oc, self, other, self_decimals, other_decimals) ==
  LET p == u32_pow(oc, other_decimals)
      factor == from_u32(T, p.val)
      adjusted_value == op_mul(T, oc, self, factor)
      value == op_div(T, adjusted_value.val, other)
  IN  IF p.some /\ adjusted_value.some /\ value.some
      THEN Ok(value.val, self_decimals) ELSE Panic

\* Mutant of rem_decimals: the remainder of the unscaled self.
rem_decimals_unscaled(T, oc, self, other, self_decimals, other_decimals) ==
  LET value == op_rem(T, self, other)
  IN  IF value.some THEN Ok(value.val, self_decimals) ELSE Panic

rem_decimals(T, oc, self, other, self_decimals, other_decimals) ==
  LET p == u32_pow(oc, self_decimals)
      factor == from_u32(T, p.val)
      adjusted_value == op_mul(T, oc, self, factor)
      value == op_rem(T, adjusted_value.val, other)
  IN  IF p.some /\ adjusted_value.some /\ value.some
      THEN Ok(value.val, self_decimals) ELSE Panic

\* ------------------------------------------------------------ helpers
\* A String is the sequence of its characters.
DigitChar(n) == <<"0", "1", "2", "3", "4", "5", "6", "7", "8", "9">>[n + 1]

\* u64::to_string and {} of a u64: the decimal digits, no leading zero.
RECURSIVE u64_to_string(_)
u64_to_string(n) ==
  IF n < Ten THEN <<DigitChar(n)>>
  ELSE u64_to_string(n \div Ten) \o <<DigitChar(n % Ten)>>

\* PadToWidth for String: pad_char is inserted at the front while the string
\* is shorter than width.
RECURSIVE pad_to_width(_, _, _)
pad_to_width(string, width, pad_char) ==
  IF Len(string) < width
  THEN pad_to_width(<<pad_char>> \o string, width, pad_char)
  ELSE string

\* decimals as i32: the u32 reinterpreted as signed.
as_i32(decimals) ==
  IF decimals >= Pow2(U32Bits - 1) THEN decimals - Pow2(U32Bits) ELSE decimals

\* ten.powi(exp) for exp >= 0, where the f64 power is the exact integer.
RECURSIVE powi(_)
powi(exp) == IF exp = 0 THEN 1 ELSE Ten * powi(exp - 1)

\* to_string_decimals of a non-negative integer value that f64 holds
\* exactly: value / 10^decimals cast to u64 is the integer quotient, value %
\* 10^decimals the integer remainder.
to_string_decimals(value, decimals) ==
  LET integer_part == value \div powi(as_i32(decimals))
      fractional_part == value % powi(as_i32(decimals))
  IN  u64_to_string(integer_part) \o <<".">>
        \o pad_to_width(u64_to_string(fractional_part), decimals, "0")

\* ------------------------------------------------------------ state
VARIABLES
  T,               \* the magnitude type of the call
  overflow_checks, \* TRUE: a build with overflow checks (debug); FALSE: without
  self,            \* the first magnitude
  other,           \* the second magnitude
  self_decimals,   \* the first scale, a u32
  other_decimals,  \* the second scale, a u32
  op,              \* the operation called on these inputs, "none" before
  checked,         \* the outcome of the checked engine, NoCall before
  unchecked,       \* the outcome of the unchecked engine, NoCall before
  back_checked,    \* after an Ok add: the outcome of subtracting other back;
                   \* after a divide: the outcome of rem on the same inputs
  back_unchecked,  \* the same for the unchecked engine
  primitive,       \* the Option a checked primitive returned, NoPrimitive before
  text             \* the String to_string_decimals returned, empty before

vars == <<T, overflow_checks, self, other, self_decimals, other_decimals,
          op, checked, unchecked, back_checked, back_unchecked, primitive,
          text>>

inputs == <<T, overflow_checks, self, other, self_decimals, other_decimals>>

\* The magnitudes drawn for type t: around zero, around the bounds of t, and
\* around the bounds divided by ten.
Near(t, c) == {x \in (c - InputSpan)..(c + InputSpan) : InRange(t, x)}
Values(t) ==
  Near(t, 0) \cup Near(t, MaxVal(t)) \cup Near(t, MinVal(t))
  \cup Near(t, MaxVal(t) \div Ten) \cup Near(t, TruncDiv(MinVal(t), Ten))

\* The scales drawn: the small ones and the largest u32.
DecimalsSet == (0..MaxDecimals) \cup {U32Max}

Init ==
  /\ T \in Types
  /\ overflow_checks \in BOOLEAN
  /\ self \in Values(T)
  /\ other \in Values(T)
  /\ self_decimals \in DecimalsSet
  /\ other_decimals \in DecimalsSet
  /\ op = "none"
  /\ checked = NoCall
  /\ unchecked = NoCall
  /\ back_checked = NoCall
  /\ back_unchecked = NoCall
  /\ primitive = NoPrimitive
  /\ text = <<>>

\* A call of the checked engine on the inputs; the unchecked engine may have
\* been called with the same operation on them before, or be called after.
CallChecked(name, outcome) ==
  /\ checked = NoCall
  /\ op \in {"none", name}
  /\ op' = name
  /\ checked' = outcome
  /\ UNCHANGED <<inputs, unchecked, back_checked, back_unchecked, primitive, text>>

CallUnchecked(name, outcome) ==
  /\ unchecked = NoCall
  /\ op \in {"none", name}
  /\ op' = name
  /\ unchecked' = outcome
  /\ UNCHANGED <<inputs, checked, back_checked, back_unchecked, primitive, text>>

AddDecimalsChecked ==
  CallChecked("add", add_decimals_checked(T, overflow_checks, self, other,
                                          self_decimals, other_decimals))
SubDecimalsChecked ==
  CallChecked("sub", sub_decimals_checked(T, overflow_checks, self, other,
                                          self_decimals, other_decimals))
MultiplyDecimalsChecked ==
  CallChecked("multiply", multiply_decimals_checked(T, overflow_checks, self, other,
                                                    self_decimals, other_decimals))
DivideDecimalsChecked ==
  CallChecked("divide", divide_decimals_checked(T, overflow_checks, self, other,
                                                self_decimals, other_decimals))
RemDecimalsChecked ==
  CallChecked("rem", rem_decimals_checked(T, overflow_checks, self, other,
                                          self_decimals, other_decimals))

AddDecimals ==
  CallUnchecked("add", add_decimals(T, overflow_checks, self, other,
                                    self_decimals, other_decimals))
SubDecimals ==
  CallUnchecked("sub", sub_decimals(T, overflow_checks, self, other,
                                    self_decimals, other_decimals))
MultiplyDecimals ==
  CallUnchecked("multiply", multiply_decimals(T, overflow_checks, self, other,
                                              self_decimals, other_decimals))
DivideDecimals ==
  CallUnchecked("divide", divide_decimals(T, overflow_checks, self, other,
                                          self_decimals, other_decimals))
RemDecimals ==
  CallUnchecked("rem", rem_decimals(T, overflow_checks, self, other,
                                    self_decimals, other_decimals))

\* A call of one checked primitive of T on (self, other).
CallPrimitive(name, result) ==
  /\ op = "none"
  /\ op' = name
  /\ primitive' = result
  /\ UNCHANGED <<inputs, checked, unchecked, back_checked, back_unchecked, text>>

CheckedAdd == CallPrimitive("checked_add", checked_add(T, self, other))
CheckedSub == CallPrimitive("checked_sub", checked_sub(T, self, other))
CheckedMul == CallPrimitive("checked_mul", checked_mul(T, self, other))
CheckedDiv == CallPrimitive("checked_div", checked_div(T, self, other))
CheckedRem == CallPrimitive("checked_rem", checked_rem(T, self, other))

\* to_string_decimals on (self, self_decimals).  Of the magnitude types only
\* u32 is Into<f64>; a scale whose cast to i32 is negative gives a power of
\* ten below one, and f64 arithmetic on fractions is not modelled.
ToStringDecimals ==
  /\ op = "none"
  /\ T = "u32"
  /\ as_i32(self_decimals) >= 0
  /\ op' = "to_string"
  /\ text' = to_string_decimals(self, self_decimals)
  /\ UNCHANGED <<inputs, checked, unchecked, back_checked, back_unchecked,
                 primitive>>

\* The round trip of a caller: sub_decimals(_checked) called on the pair an
\* add returned and on (other, other_decimals) again.
SubBackChecked ==
  /\ op = "add"
  /\ checked.kind = "Ok"
  /\ back_checked = NoCall
  /\ back_checked' = sub_decimals_checked(T, overflow_checks, checked.val, other,
                                          checked.decimals, other_decimals)
  /\ UNCHANGED <<inputs, op, checked, unchecked, back_unchecked, primitive, text>>

SubBack ==
  /\ op = "add"
  /\ unchecked.kind = "Ok"
  /\ back_unchecked = NoCall
  /\ back_unchecked' = sub_decimals(T, overflow_checks, unchecked.val, other,
                                    unchecked.decimals, other_decimals)
  /\ UNCHANGED <<inputs, op, checked, unchecked, back_checked, primitive, text>>

\* A caller taking quotient and remainder: rem_decimals(_checked) called on
\* the inputs a divide was called on.
RemAfterDivideChecked ==
  /\ op = "divide"
  /\ checked # NoCall
  /\ back_checked = NoCall
  /\ back_checked' = rem_decimals_checked(T, overflow_checks, self, other,
                                          self_decimals, other_decimals)
  /\ UNCHANGED <<inputs, op, checked, unchecked, back_unchecked, primitive, text>>

RemAfterDivide ==
  /\ op = "divide"
  /\ unchecked # NoCall
  /\ back_unchecked = NoCall
  /\ back_unchecked' = rem_decimals(T, overflow_checks, self, other,
                                    self_decimals, other_decimals)
  /\ UNCHANGED <<inputs, op, checked, unchecked, back_checked, primitive, text>>

Next ==
  \/ AddDecimalsChecked
  \/ SubDecimalsChecked
  \/ MultiplyDecimalsChecked
  \/ DivideDecimalsChecked
  \/ RemDecimalsChecked
  \/ AddDecimals
  \/ SubDecimals
  \/ MultiplyDecimals
  \/ DivideDecimals
  \/ RemDecimals
  \/ SubBackChecked
  \/ SubBack
  \/ CheckedAdd
  \/ CheckedSub
  \/ CheckedMul
  \/ CheckedDiv
  \/ CheckedRem
  \/ ToStringDecimals
  \/ RemAfterDivideChecked
  \/ RemAfterDivide

Spec == Init /\ [][Next]_vars

\* ------------------------------------------------------------ exact arithmetic
\* The unbounded-integer values the claims speak of, computed without any of
\* the engines' operators.
Max2(a, b) == IF a > b THEN a ELSE b

\* 10^e, exact below PowCap and PowCap from there on; PowCap is above every
\* magnitude of every type.
PowCap == Pow2(3 * U32Bits)
RECURSIVE SatPow(_)
SatPow(e) ==
  IF e = 0 THEN 1
  ELSE LET q == SatPow(e - 1) IN IF q * Ten >= PowCap THEN PowCap ELSE q * Ten

\* The exponent of the scale factor of the operation called.
UsedExp ==
  CASE op \in {"add", "sub"} ->
         Max2(self_decimals, other_decimals)
           - (IF self_decimals > other_decimals THEN other_decimals ELSE self_decimals)
    [] op = "divide" -> other_decimals
    [] op = "rem" -> self_decimals
    [] OTHER -> 0

\* The result scale of add and sub, and both operands expressed at it.
LargerScale == Max2(self_decimals, other_decimals)
AlignedSelf == self * SatPow(LargerScale - self_decimals)
AlignedOther == other * SatPow(LargerScale - other_decimals)

\* The dividend of divide and rem after scaling.
ScaledDividend == self * SatPow(UsedExp)

\* The exact magnitude the operation called is to return (divide and rem:
\* for a non-zero divisor).
ExactResult ==
  CASE op = "add" -> AlignedSelf + AlignedOther
    [] op = "sub" -> AlignedSelf - AlignedOther
    [] op = "multiply" -> self * other
    [] op = "divide" -> IF other = 0 THEN 0 ELSE TruncDiv(ScaledDividend, other)
    [] op = "rem" -> IF other = 0 THEN 0 ELSE TruncRem(ScaledDividend, other)
    [] OTHER -> 0

ExactScale ==
  CASE op \in {"add", "sub"} -> LargerScale
    [] op = "multiply" -> self_decimals + other_decimals
    [] OTHER -> self_decimals

\* No step of the operation called overflows: the power of ten fits the u32
\* it is computed in, the scaled operand and the result fit T, the scale sum
\* of multiply fits u32, and divide / rem are not the signed minimum by -1.
NoOverflow ==
  /\ SatPow(UsedExp) <= U32Max
  /\ op \in {"add", "sub"} => InRange(T, AlignedSelf) /\ InRange(T, AlignedOther)
  /\ op \in {"divide", "rem"} =>
       /\ InRange(T, ScaledDividend)
       /\ ~(Signed(T) /\ ScaledDividend = MinVal(T) /\ other = -1)
  /\ op = "multiply" => self_decimals + other_decimals <= U32Max
  /\ InRange(T, ExactResult)

Called(outcome) == outcome # NoCall

\* ------------------------------------------------------------ claims
\* C1: a checked divide or rem whose divisor magnitude is zero returns
\* Err(DivisionByZero), never Err(Overflow), whatever the dividend and the
\* scales are (a call that returned, i.e. did not panic in the exponentiation).
C1_ZeroDivisorIsDivisionByZero ==
  (op \in {"divide", "rem"} /\ Called(checked) /\ checked.kind # "Panic"
     /\ other = 0)
    => checked.kind = "DivisionByZero"

\* C2: a checked divide or rem returns Err(DivisionByZero) only when the
\* divisor magnitude is zero (so the signed minimum by -1 is not one).
C2_DivisionByZeroOnlyForZeroDivisor ==
  (op \in {"divide", "rem"} /\ Called(checked)
     /\ checked.kind = "DivisionByZero")
    => other = 0

\* C3: on inputs where no step overflows and the divisor is not zero, the
\* checked operation returns Ok of exactly the (magnitude, scale) pair the
\* unchecked operation of the same name returns.
C3_CheckedAgreesWithUnchecked ==
  (Called(checked) /\ Called(unchecked) /\ NoOverflow
     /\ (op \in {"divide", "rem"} => other # 0))
    => /\ checked.kind = "Ok"
       /\ unchecked.kind = "Ok"
       /\ checked.val = unchecked.val
       /\ checked.decimals = unchecked.decimals

\* Both engines were called on a divide with different scales, nothing
\* overflowed and the quotient is not zero.
C3_Witness ==
  /\ op = "divide" /\ Called(checked) /\ Called(unchecked)
  /\ NoOverflow /\ other # 0
  /\ self_decimals # other_decimals /\ other_decimals > 0
  /\ checked.kind = "Ok" /\ checked.val # 0

\* The scale factor the checked engine applied, as a value of T (the call did
\* not panic in the exponentiation).
AppliedFactor == from_u32(T, u32_pow(overflow_checks, UsedExp).val)

\* The exact products and results of the magnitude steps on that factor.
StepScaled ==
  CASE op \in {"add", "sub"} ->
         (IF self_decimals > other_decimals THEN other ELSE self) * AppliedFactor
    [] op \in {"divide", "rem"} -> self * AppliedFactor
    [] OTHER -> self
StepFinal ==
  CASE op = "add" ->
         IF self_decimals > other_decimals
         THEN self + StepScaled ELSE StepScaled + other
    [] op = "sub" ->
         IF self_decimals > other_decimals
         THEN self - StepScaled ELSE StepScaled - other
    [] op = "multiply" -> self * other
    [] op = "divide" -> IF other = 0 THEN 0 ELSE TruncDiv(StepScaled, other)
    [] op = "rem" -> IF other = 0 THEN 0 ELSE TruncRem(StepScaled, other)
    [] OTHER -> 0

C5_EveryScaleThatFitsTIsCovered ==
  (op \in {"add", "sub", "divide", "rem"} /\ Called(checked)
     /\ SatPow(UsedExp) <= MaxVal(T))
    => /\ checked.kind \in {"Ok", "Overflow", "DivisionByZero"}
       /\ checked.kind = "Ok" => checked.val = ExactResult

\* C6: with no overflow, add and sub of both engines return the operands
\* aligned to the larger scale and combined, at the larger scale; on equal
\* scales that is the plain sum or difference.
C6_AddSubAlignToLargerScale ==
  (op \in {"add", "sub"} /\ NoOverflow)
    => \A o \in {checked, unchecked} :
         Called(o) =>
           /\ o = Ok(ExactResult, LargerScale)
           /\ self_decimals = other_decimals =>
                o.val = (IF op = "add" THEN self + other ELSE self - other)

\* Both engines subtracted with self at the smaller scale, nothing overflowed.
C6_Witness ==
  /\ op = "sub" /\ Called(checked) /\ Called(unchecked) /\ NoOverflow
  /\ self_decimals < other_decimals
  /\ self # 0 /\ other # 0
  /\ checked.kind = "Ok" /\ checked.val # self - other

\* C7: with no overflow, add returns scale max(sa, sb), and subtracting
\* (other, sb) from the pair add returned gives self expressed at that scale,
\* in both engines.
C7_AddThenSubRoundTrip ==
  (op = "add" /\ NoOverflow)
    => /\ Called(back_checked) =>
            /\ checked.decimals = LargerScale
            /\ back_checked = Ok(AlignedSelf, LargerScale)
       /\ Called(back_unchecked) =>
            /\ unchecked.decimals = LargerScale
            /\ back_unchecked = Ok(AlignedSelf, LargerScale)

\* Both round trips were made with self at the smaller scale, so that self
\* comes back rescaled.
C7_Witness ==
  /\ op = "add" /\ NoOverflow
  /\ Called(back_checked) /\ Called(back_unchecked)
  /\ self_decimals < other_decimals
  /\ self # 0 /\ other # 0
  /\ back_checked.val # self

\* C8: multiply of both engines returns the product and the scale sa + sb
\* for every pair of u32 scales, whenever the product fits T.
C8_MultiplyScaleIsSum ==
  (op = "multiply" /\ InRange(T, self * other))
    => \A o \in {checked, unchecked} :
         Called(o) => o = Ok(self * other, self_decimals + other_decimals)

\* q is x / b, truncated toward zero.
IsTruncQuotient(q, x, b) ==
  /\ Abs(q) * Abs(b) <= Abs(x)
  /\ Abs(x) < (Abs(q) + 1) * Abs(b)
  /\ q # 0 => ((q > 0) <=> ((x > 0) = (b > 0)))

\* r is the remainder of x / b truncated toward zero.
IsTruncRemainder(r, x, b) ==
  /\ Abs(r) < Abs(b)
  /\ (x - r) % Abs(b) = 0
  /\ r # 0 => ((r > 0) <=> (x > 0))

\* C9: for a non-zero divisor and no overflow, divide of both engines returns
\* (self * 10^sb) / other truncated toward zero, at scale sa.
C9_DivideTruncatesAtDividendScale ==
  (op = "divide" /\ other # 0 /\ NoOverflow)
    => \A o \in {checked, unchecked} :
         Called(o) =>
           /\ o.kind = "Ok"
           /\ o.decimals = self_decimals
           /\ IsTruncQuotient(o.val, self * SatPow(other_decimals), other)

\* Both engines divided on different scales, the quotient negative and not
\* exact (truncation and flooring differ).
C9_Witness ==
  /\ op = "divide" /\ other # 0 /\ NoOverflow
  /\ Called(checked) /\ Called(unchecked)
  /\ self_decimals # other_decimals /\ other_decimals > 0
  /\ checked.val < 0
  /\ checked.val * other # self * SatPow(other_decimals)

\* C10: for a non-zero divisor and no overflow, rem of both engines returns
\* (self * 10^sa) rem other at scale sa; and the outcome of rem, failures
\* included, is the same for every other_decimals.
C10_RemUsesDividendScaleOnly ==
  op = "rem"
    => /\ (other # 0 /\ NoOverflow) =>
            \A o \in {checked, unchecked} :
              Called(o) =>
                /\ o.kind = "Ok"
                /\ o.decimals = self_decimals
                /\ IsTruncRemainder(o.val, self * SatPow(self_decimals), other)
       /\ \A d \in DecimalsSet :
            /\ Called(checked) =>
                 rem_decimals_checked(T, overflow_checks, self, other,
                                      self_decimals, d) = checked
            /\ Called(unchecked) =>
                 rem_decimals(T, overflow_checks, self, other,
                              self_decimals, d) = unchecked

\* Both engines took a non-zero remainder on different, non-zero scales.
C10_Witness ==
  /\ op = "rem" /\ other # 0 /\ NoOverflow
  /\ Called(checked) /\ Called(unchecked)
  /\ self_decimals > 0 /\ other_decimals > 0
  /\ self_decimals # other_decimals
  /\ checked.kind = "Ok" /\ checked.val # 0

\* The exact integer result of the primitive called on (self, other); for
\* div and rem, for a non-zero divisor.
PrimitiveExact ==
  CASE op = "checked_add" -> self + other
    [] op = "checked_sub" -> self - other
    [] op = "checked_mul" -> self * other
    [] OTHER -> 0
PrimitiveCalled ==
  op \in {"checked_add", "checked_sub", "checked_mul", "checked_div", "checked_rem"}

\* C11 as stated: checked_add, checked_sub and checked_mul return None exactly
\* when the exact result is out of range, checked_div and checked_rem exactly
\* when the divisor is zero, and Some of the exact result otherwise.
C11_NoneExactlyOnOverflowOrZeroDivisor ==
  /\ op \in {"checked_add", "checked_sub", "checked_mul"} =>
       /\ ~primitive.some <=> ~InRange(T, PrimitiveExact)
       /\ primitive.some => primitive.val = PrimitiveExact
  /\ op \in {"checked_div", "checked_rem"} =>
       (~primitive.some <=> other = 0)

\* C11 as amended: as above, but checked_div and checked_rem return None
\* exactly when the divisor is zero or, on a signed type, the dividend is the
\* minimum and the divisor -1; otherwise Some of the quotient truncated
\* toward zero, resp. of its remainder.
C11_NoneAlsoOnMinByMinusOne ==
  /\ op \in {"checked_add", "checked_sub", "checked_mul"} =>
       /\ ~primitive.some <=> ~InRange(T, PrimitiveExact)
       /\ primitive.some => primitive.val = PrimitiveExact
  /\ op \in {"checked_div", "checked_rem"} =>
       /\ ~primitive.some <=>
            (other = 0 \/ (Signed(T) /\ self = MinVal(T) /\ other = -1))
       /\ (primitive.some /\ op = "checked_div") =>
            IsTruncQuotient(primitive.val, self, other)
       /\ (primitive.some /\ op = "checked_rem") =>
            IsTruncRemainder(primitive.val, self, other)

\* checked_rem returned None on the signed minimum and -1.
C11_Witness ==
  /\ op = "checked_rem" /\ ~primitive.some
  /\ Signed(T) /\ self = MinVal(T) /\ other = -1

\* The w lowest decimal digits of n, the highest first: n as text, padded
\* with zeros to exactly w characters (n < 10^w).
FractionText(n, w) == [i \in 1..w |-> DigitChar((n \div SatPow(w - i)) % Ten)]

\* C12: to_string_decimals(magnitude, scale) is the text of magnitude div
\* 10^scale, a '.', and magnitude mod 10^scale as exactly scale digits, for
\* every scale >= 0, scale 0 included.
C12_FractionHasExactlyScaleDigits ==
  op = "to_string" =>
    /\ text = u64_to_string(self \div SatPow(self_decimals)) \o <<".">>
                \o FractionText(self % SatPow(self_decimals), self_decimals)
    /\ Len(text) = Len(u64_to_string(self \div SatPow(self_decimals)))
                     + 1 + self_decimals

\* The checked add or sub called, with the operand that is not scaled (self
\* when self_decimals > other_decimals, other otherwise) replaced by v.
CheckedWithUnscaled(v) ==
  LET a == IF self_decimals > other_decimals THEN v ELSE self
      b == IF self_decimals > other_decimals THEN other ELSE v
  IN  IF op = "add"
      THEN add_decimals_checked(T, overflow_checks, a, b,
                                self_decimals, other_decimals)
      ELSE sub_decimals_checked(T, overflow_checks, a, b,
                                self_decimals, other_decimals)

C14_QuotientRemainderIdentity ==
  (op = "divide" /\ self_decimals = other_decimals /\ other # 0 /\ NoOverflow)
    => /\ Called(back_checked) =>
            /\ checked.kind = "Ok" /\ back_checked.kind = "Ok"
            /\ checked.val * other + back_checked.val
                 = self * SatPow(self_decimals)
            /\ ~Signed(T) => (0 <= back_checked.val /\ back_checked.val < other)
       /\ Called(back_unchecked) =>
            /\ unchecked.kind = "Ok" /\ back_unchecked.kind = "Ok"
            /\ unchecked.val * other + back_unchecked.val
                 = self * SatPow(self_decimals)
            /\ ~Signed(T) =>
                 (0 <= back_unchecked.val /\ back_unchecked.val < other)

\* Quotient and remainder were taken by both engines on equal non-zero
\* scales, both of them non-zero.
C14_Witness ==
  /\ op = "divide" /\ self_decimals = other_decimals /\ self_decimals > 0
  /\ other # 0 /\ NoOverflow
  /\ Called(back_checked) /\ Called(back_unchecked)
  /\ checked.val # 0 /\ back_checked.val # 0

\* On unequal scales the identity of C14 does not hold in general: a state
\* where divide and rem succeeded and q * other + r is neither self * 10^sb
\* nor self * 10^sa.
C14_UnequalScalesBreakIdentity ==
  /\ op = "divide" /\ self_decimals # other_decimals /\ other # 0 /\ NoOverflow
  /\ Called(back_checked) /\ checked.kind = "Ok" /\ back_checked.kind = "Ok"
  /\ checked.val * other + back_checked.val # self * SatPow(other_decimals)
  /\ checked.val * other + back_checked.val # self * SatPow(self_decimals)

====
